---------------------------- MODULE Spec2Model ----------------------------
(***************************************************************************)
(* ecc-acc: a dynamic accumulator over a prime-order elliptic-curve group. *)
(*                                                                         *)
(* The group is cyclic of prime order n, so a point is represented by its  *)
(* discrete logarithm to the base g: the point k*g is the integer k in     *)
(* 0..n-1, g is 1 and the point at infinity is 0.  Point addition is       *)
(* addition mod n and scalar multiplication is multiplication mod n.       *)
(* JavaScript null is the empty tuple and a Number k is the tuple <<k>>.   *)
(***************************************************************************)
EXTENDS Integers, Sequences, FiniteSets, TLC

\* ------------------------------------------------------------------ bounds
\* Index into Orders: which prime group order the curve has.
OrderIdx == 1
\* At most MaxI + 1 elements are accumulated at a time: the cursor i <= MaxI.
MaxI == 1

Orders == <<5, 7, 11, 13>>

\* --------------------------------------------------------------- the curve
n == Orders[OrderIdx]
g == 1
inf == 0
Undefined == -1
Null == <<>>

Points == 0 .. (n - 1)

\* ProjectivePoint.add
PointAdd(P, R) == (P + R) % n

\* ProjectivePoint.multiply
multiply(P, s) == (P * s) % n

\* modInv of bigint-mod-arith, for a with an inverse; it throws a RangeError
\* for a = 0, which the callers check first
modInv(a, m) == CHOOSE x \in 1 .. (m - 1) : (a * x) % m = 1

\* ToNumber of a cursor: null coerces to 0 in <, <=, + and -
ToNumber(i) == IF i = Null THEN 0 ELSE i[1]

\* ToBoolean of an object; a Promise is an object
ToBoolean(object) == TRUE

\* ---------------------------------------------------------------- elements
Data == {"a", "b", "c"}

\* The digest of each element, read as a big-endian integer, for the hash
\* functions H an instance may be constructed with.
Hashes ==
  { [a |-> 1, b |-> 2, c |-> 3],
    [a |-> n, b |-> 2, c |-> n + 2] }

VARIABLES
  H,        \* digest table of the hash both parties were constructed with
  strict,   \* TRUE: the curve's multiply throws on the scalar 0
  acc,      \* Accumulator: [c, z, Q, i], the secret c held modulo n
  prover,   \* Prover: [A, Q, i, z]
  chan,     \* records returned by add/del, not yet passed to Prover.update
  members,  \* history: the bag of mapped scalars added and not yet deleted
  hist,     \* history: stray, a del has named an element that was not
            \* accumulated (a run holds at most one such del); dup, an add
            \* has named an element that was accumulated already
  ret,      \* the last add or del: its name, its element (for del, the v of
            \* its witness too), its settled result
  script,   \* the WitnessUpdates a caller keeps, and which it deletes next
  calls     \* the calls started and not awaited, in call order: [op, arg,
            \* at, res]; at = 0 while the call waits for its hash, then the
            \* position in which it resumed; res its settled promise

vars == <<H, strict, acc, prover, chan, members, hist, ret, script, calls>>

\* map(H, d, n): the digest read as an integer, modulo the group order
map(d) == H[d] % n

\* The settled result of an async call: fulfilled with a value or rejected.
Fulfilled(value) == [ok |-> TRUE, val |-> value]
Rejected(error) == [ok |-> FALSE, val |-> error]

\* multiply throws on the scalar 0 when the curve is strict about its range
Throws(s) == strict /\ s = 0

\* ------------------------------------------------------------- Accumulator
\* new Accumulator(curve, H, c)
Accumulator(c) == [c |-> c, z |-> g, Q |-> inf, i |-> Null]

\* add with the witness taken after z is updated
Accumulator_addLateWitness(this, d) ==
  LET e == map(d)
      s == (e + this.c) % n
      z == multiply(this.z, s)
      Q1 == IF this.Q = inf THEN g ELSE multiply(this.Q, this.c)
      i == IF this.i = Null THEN <<0>> ELSE <<this.i[1] + 1>>
  IN  IF Throws(this.c) \/ Throws(s)
      THEN [state |-> this, ret |-> Rejected("Error")]
      ELSE [state |-> [this EXCEPT !.z = z, !.Q = Q1, !.i = i],
            ret |-> Fulfilled([d |-> d, z |-> z, v |-> z,
                               w |-> multiply(z, this.c),
                               Q |-> multiply(Q1, this.c), i |-> i])]

\* add that takes the secret's share of z' from g instead of z:
\* z' = z * e + g * c
Accumulator_addFromGenerator(this, d) ==
  LET e == map(d)
      v == this.z
      w == multiply(this.z, this.c)
      s == (e + this.c) % n
      z == PointAdd(multiply(this.z, e), multiply(g, this.c))
      Q1 == IF this.Q = inf THEN g ELSE multiply(this.Q, this.c)
      Q == multiply(Q1, this.c)
      i == IF this.i = Null THEN <<0>> ELSE <<this.i[1] + 1>>
  IN  IF Throws(this.c) \/ Throws(s)
      THEN [state |-> this, ret |-> Rejected("Error")]
      ELSE [state |-> [this EXCEPT !.z = z, !.Q = Q1, !.i = i],
            ret |-> Fulfilled([d |-> d, z |-> z, v |-> v, w |-> w, Q |-> Q, i |-> i])]

\* add that keeps the Q it returns, g * c^k with k elements, as its own Q
Accumulator_addKeepsNextQ(this, d) ==
  LET e == map(d)
      v == this.z
      w == multiply(this.z, this.c)
      s == (e + this.c) % n
      z == multiply(this.z, s)
      Q1 == IF this.Q = inf THEN g ELSE multiply(this.Q, this.c)
      Q == multiply(Q1, this.c)
      i == IF this.i = Null THEN <<0>> ELSE <<this.i[1] + 1>>
  IN  IF Throws(this.c) \/ Throws(s)
      THEN [state |-> this, ret |-> Rejected("Error")]
      ELSE [state |-> [this EXCEPT !.z = z, !.Q = Q, !.i = i],
            ret |-> Fulfilled([d |-> d, z |-> z, v |-> v, w |-> w, Q |-> Q, i |-> i])]

\* add that returns the secret in its record
Accumulator_addTellsSecret(this, d) ==
  LET e == map(d)
      v == this.z
      w == multiply(this.z, this.c)
      s == (e + this.c) % n
      z == multiply(this.z, s)
      Q1 == IF this.Q = inf THEN g ELSE multiply(this.Q, this.c)
      Q == multiply(Q1, this.c)
      i == IF this.i = Null THEN <<0>> ELSE <<this.i[1] + 1>>
  IN  IF Throws(this.c) \/ Throws(s)
      THEN [state |-> this, ret |-> Rejected("Error")]
      ELSE [state |-> [this EXCEPT !.z = z, !.Q = Q1, !.i = i],
            ret |-> Fulfilled([d |-> d, z |-> z, v |-> v, w |-> w, Q |-> Q, i |-> i,
                               c |-> this.c])]

\* Accumulator.add(d): [state, ret]
Accumulator_add(this, d) ==
  LET e == map(d)
      v == this.z
      w == multiply(this.z, this.c)
      s == (e + this.c) % n
      z == multiply(this.z, s)
      Q1 == IF this.Q = inf THEN g ELSE multiply(this.Q, this.c)
      Q == multiply(Q1, this.c)
      i == IF this.i = Null THEN <<0>> ELSE <<this.i[1] + 1>>
  IN  IF Throws(this.c) \/ Throws(s)
      THEN [state |-> this, ret |-> Rejected("Error")]
      ELSE [state |-> [this EXCEPT !.z = z, !.Q = Q1, !.i = i],
            ret |-> Fulfilled([d |-> d, z |-> z, v |-> v, w |-> w, Q |-> Q, i |-> i])]

\* verify with the secret left out of the exponent
Accumulator_verifyWithoutSecret(this, witness) ==
  LET e == map(witness.d)
  IN  IF Throws(e)
      THEN Rejected("Error")
      ELSE Fulfilled(this.z = multiply(witness.v, e))

\* verify in the additive form, which reads w: z = v * e + w
Accumulator_verifyAdditive(this, witness) ==
  LET e == map(witness.d)
  IN  IF Throws(e)
      THEN Rejected("Error")
      ELSE Fulfilled(this.z = PointAdd(multiply(witness.v, e), witness.w))

\* Accumulator.verify({d, v}): the settled promise
Accumulator_verify(this, witness) ==
  LET e == map(witness.d)
      s == (e + this.c) % n
  IN  IF Throws(s)
      THEN Rejected("Error")
      ELSE Fulfilled(this.z = multiply(witness.v, s))

\* del that leaves z as it is
Accumulator_delKeepsZ(this, witness) ==
  LET e == map(witness.d)
      s == (e + this.c) % n
      Q1 == IF this.Q = g THEN inf ELSE multiply(this.Q, modInv(this.c, n))
      i == IF this.i = <<0>> THEN Null ELSE <<ToNumber(this.i) - 1>>
  IN  IF s = 0 \/ this.c = 0
      THEN [state |-> this, ret |-> Rejected("RangeError")]
      ELSE [state |-> [this EXCEPT !.Q = Q1, !.i = i],
            ret |-> Fulfilled([d |-> witness.d, z |-> this.z, Q |-> this.Q, i |-> i])]

\* del that multiplies z by e + c instead of its inverse
Accumulator_delNoInverse(this, witness) ==
  LET e == map(witness.d)
      s == (e + this.c) % n
      z == multiply(this.z, s)
      Q1 == IF this.Q = g THEN inf ELSE multiply(this.Q, modInv(this.c, n))
      i == IF this.i = <<0>> THEN Null ELSE <<ToNumber(this.i) - 1>>
  IN  IF s = 0 \/ this.c = 0
      THEN [state |-> this, ret |-> Rejected("RangeError")]
      ELSE [state |-> [this EXCEPT !.z = z, !.Q = Q1, !.i = i],
            ret |-> Fulfilled([d |-> witness.d, z |-> z, Q |-> this.Q, i |-> i])]

\* del that never resets Q to the point at infinity
Accumulator_delNoReset(this, witness) ==
  LET e == map(witness.d)
      s == (e + this.c) % n
      z == multiply(this.z, modInv(s, n))
      Q1 == multiply(this.Q, modInv(this.c, n))
      i == IF this.i = <<0>> THEN Null ELSE <<ToNumber(this.i) - 1>>
  IN  IF s = 0 \/ this.c = 0
      THEN [state |-> this, ret |-> Rejected("RangeError")]
      ELSE [state |-> [this EXCEPT !.z = z, !.Q = Q1, !.i = i],
            ret |-> Fulfilled([d |-> witness.d, z |-> z, Q |-> this.Q, i |-> i])]

\* del that returns its Q as it is after the decrement
Accumulator_delReturnsNewQ(this, witness) ==
  LET e == map(witness.d)
      s == (e + this.c) % n
      z == multiply(this.z, modInv(s, n))
      Q1 == IF this.Q = g THEN inf ELSE multiply(this.Q, modInv(this.c, n))
      i == IF this.i = <<0>> THEN Null ELSE <<ToNumber(this.i) - 1>>
  IN  IF s = 0 \/ this.c = 0
      THEN [state |-> this, ret |-> Rejected("RangeError")]
      ELSE [state |-> [this EXCEPT !.z = z, !.Q = Q1, !.i = i],
            ret |-> Fulfilled([d |-> witness.d, z |-> z, Q |-> Q1, i |-> i])]

\* Accumulator.del({d, v, w}): [state, ret]
Accumulator_del(this, witness) ==
  LET promise == Accumulator_verify(this, witness)
      e == map(witness.d)
      s == (e + this.c) % n
      z == multiply(this.z, modInv(s, n))
      Q == this.Q
      Q1 == IF this.Q = g THEN inf ELSE multiply(this.Q, modInv(this.c, n))
      i == IF this.i = <<0>> THEN Null ELSE <<ToNumber(this.i) - 1>>
  IN  IF ~ToBoolean(promise)
      THEN [state |-> this, ret |-> Rejected("AssertionError")]
      ELSE IF s = 0
      THEN [state |-> this, ret |-> Rejected("RangeError")]
      ELSE IF this.Q # g /\ this.c = 0
      THEN [state |-> [this EXCEPT !.z = z], ret |-> Rejected("RangeError")]
      ELSE [state |-> [this EXCEPT !.z = z, !.Q = Q1, !.i = i],
            ret |-> Fulfilled([d |-> witness.d, z |-> z, Q |-> Q, i |-> i])]

\* prove with the two inverses swapped
Accumulator_proveSwapped(this, d) ==
  LET e == map(d)
      s == (e + this.c) % n
  IN  IF s = 0 \/ e = 0
      THEN Rejected("RangeError")
      ELSE Fulfilled([d |-> d,
                      v |-> multiply(this.z, modInv(e, n)),
                      w |-> multiply(this.z, modInv(s, n))])

\* Accumulator.prove(d): the settled promise
Accumulator_prove(this, d) ==
  LET e == map(d)
      s == (e + this.c) % n
  IN  IF s = 0 \/ e = 0
      THEN Rejected("RangeError")
      ELSE Fulfilled([d |-> d,
                      v |-> multiply(this.z, modInv(s, n)),
                      w |-> multiply(this.z, modInv(e, n))])

\* ------------------------------------------------------------------ Prover
\* combinate(size, elements, combinations, group): the for loop from index i
RECURSIVE combinate(_, _, _, _), combinateFrom(_, _, _, _, _)

\* the for loop recursing on elements.slice(i) instead of elements.slice(i + 1)
RECURSIVE combinateFromRepeating(_, _, _, _, _)
combinateFromRepeating(i, size, elements, combinations, group) ==
  IF i > Len(elements)
  THEN combinations
  ELSE combinateFromRepeating(i + 1, size, elements,
                              combinate(size, SubSeq(elements, i, Len(elements)),
                                        combinations, Append(group, elements[i])),
                              group)

combinateFrom(i, size, elements, combinations, group) ==
  IF i > Len(elements)
  THEN combinations
  ELSE combinateFrom(i + 1, size, elements,
                     combinate(size, SubSeq(elements, i + 1, Len(elements)),
                               combinations, Append(group, elements[i])),
                     group)

combinate(size, elements, combinations, group) ==
  IF Len(group) < size
  THEN combinateFrom(1, size, elements, combinations, group)
  ELSE Append(combinations, group)

\* group.reduce((product, e) => (product * e) % n, 1n)
RECURSIVE groupProduct(_)
groupProduct(group) ==
  IF group = <<>>
  THEN 1
  ELSE (groupProduct(SubSeq(group, 1, Len(group) - 1)) * group[Len(group)]) % n

\* combinations.reduce((sum, group) => (sum + product(group)) % n, 0n)
RECURSIVE groupSum(_)
groupSum(combinations) ==
  IF combinations = <<>>
  THEN 0
  ELSE (groupSum(SubSeq(combinations, 1, Len(combinations) - 1))
        + groupProduct(combinations[Len(combinations)])) % n

\* A.filter(v => v !== e)
RECURSIVE filter(_, _)
filter(A, e) ==
  IF A = <<>>
  THEN <<>>
  ELSE IF A[1] # e
       THEN <<A[1]>> \o filter(Tail(A), e)
       ELSE filter(Tail(A), e)

\* new Prover(curve, H)
Prover == [A |-> <<>>, Q |-> (0 :> g), i |-> Null, z |-> Undefined]

\* this.Q[k] = Q on a JavaScript array: any index may be assigned
store(Q, k, point) ==
  [j \in (DOMAIN Q) \cup {k} |-> IF j = k THEN point ELSE Q[j]]

\* update that appends the element of every record, of a del too
Prover_updateAppends(this, update) ==
  LET e == map(update.d)
      Q == IF update.i = Null
           THEN store(this.Q, 1, update.Q)
           ELSE store(this.Q, update.i[1] + 1, update.Q)
  IN  [A |-> Append(this.A, e), Q |-> Q, i |-> update.i, z |-> update.z]

\* update that stores Q at the cursor instead of one past it
Prover_updateAtCursor(this, update) ==
  LET e == map(update.d)
      A == IF update.i = Null \/ ToNumber(update.i) < ToNumber(this.i)
           THEN filter(this.A, e)
           ELSE Append(this.A, e)
      Q == IF update.i = Null
           THEN store(this.Q, 1, update.Q)
           ELSE store(this.Q, update.i[1], update.Q)
  IN  [A |-> A, Q |-> Q, i |-> update.i, z |-> update.z]

\* Prover.update({d, z, Q, i}): the state after the call
Prover_update(this, update) ==
  LET e == map(update.d)
      A == IF update.i = Null \/ ToNumber(update.i) < ToNumber(this.i)
           THEN filter(this.A, e)
           ELSE Append(this.A, e)
      Q == IF update.i = Null
           THEN store(this.Q, 1, update.Q)
           ELSE store(this.Q, update.i[1] + 1, update.Q)
  IN  [A |-> A, Q |-> Q, i |-> update.i, z |-> update.z]

\* coefficients of Prover.prove: one per group size 0..this.i
coefficients(this, A) ==
  [j \in 0 .. ToNumber(this.i) |-> groupSum(combinate(j, A, <<>>, <<>>))]

\* the two loops with the j-th coefficient on Q[j] instead of Q[i - j]
RECURSIVE accumulateAscending(_, _, _, _)
accumulateAscending(this, coeff, offset, j) ==
  IF j > ToNumber(this.i)
  THEN inf
  ELSE PointAdd(multiply(this.Q[j + offset], coeff[j]),
                accumulateAscending(this, coeff, offset, j + 1))

\* the two accumulation loops of Prover.prove, from loop index j on
RECURSIVE accumulate(_, _, _, _)
accumulate(this, coeff, offset, j) ==
  IF j > ToNumber(this.i)
  THEN inf
  ELSE PointAdd(multiply(this.Q[ToNumber(this.i) - j + offset], coeff[j]),
                accumulate(this, coeff, offset, j + 1))

\* prove with w summed over the Q entries that v is summed over
Prover_proveUnshifted(this, d) ==
  LET e == map(d)
      A == filter(this.A, e)
      coeff == coefficients(this, A)
      top == ToNumber(this.i)
  IN  IF \E j \in 0 .. top : (top - j) \notin DOMAIN this.Q
      THEN Rejected("TypeError")
      ELSE IF \E j \in 0 .. top : Throws(coeff[j])
      THEN Rejected("Error")
      ELSE Fulfilled([d |-> d,
                      v |-> accumulate(this, coeff, 0, 0),
                      w |-> accumulate(this, coeff, 0, 0)])

\* Prover.prove(d): the settled promise
Prover_prove(this, d) ==
  LET e == map(d)
      A == filter(this.A, e)
      coeff == coefficients(this, A)
      top == ToNumber(this.i)
  IN  IF \E j \in 0 .. top :
           \/ (top - j) \notin DOMAIN this.Q
           \/ (top - j + 1) \notin DOMAIN this.Q
      THEN Rejected("TypeError")
      ELSE IF \E j \in 0 .. top : Throws(coeff[j])
      THEN Rejected("Error")
      ELSE Fulfilled([d |-> d,
                      v |-> accumulate(this, coeff, 0, 0),
                      w |-> accumulate(this, coeff, 1, 0)])

\* verify with w left out of the sum
Prover_verifyWithoutW(this, witness) ==
  LET e == map(witness.d)
  IN  IF this.z = Undefined
      THEN Rejected("TypeError")
      ELSE IF Throws(e)
      THEN Rejected("Error")
      ELSE Fulfilled(this.z = multiply(witness.v, e))

\* Prover.verify({d, v, w}): the settled promise
Prover_verify(this, witness) ==
  LET e == map(witness.d)
  IN  IF this.z = Undefined
      THEN Rejected("TypeError")
      ELSE IF Throws(e)
      THEN Rejected("Error")
      ELSE Fulfilled(this.z = PointAdd(multiply(witness.v, e), witness.w))

\* ------------------------------------------------------------ the callers
\* The d, v and w of a record, as verify and del destructure it.
AsWitness(record) == [d |-> record.d, v |-> record.v, w |-> record.w]

\* The witnesses a caller holds: the record its last add returned, what either
\* party's prove returns for an element, and one it makes up.
Witnesses ==
  LET proved == { Accumulator_prove(acc, d) : d \in Data }
                  \cup { Prover_prove(prover, d) : d \in Data }
  IN  (IF ret.op = "add" /\ ret.res.ok THEN {AsWitness(ret.res.val)} ELSE {})
      \cup { r.val : r \in { p \in proved : p.ok } }
      \cup { [d |-> d, v |-> g, w |-> g] : d \in Data }

\* Number of scalars in a bag of scalars.
RECURSIVE Count(_, _)
Count(bag, upto) ==
  IF upto < 0 THEN 0 ELSE bag[upto] + Count(bag, upto - 1)

Size(bag) == Count(bag, n - 1)

Init ==
  /\ H \in Hashes
  /\ strict \in BOOLEAN
  /\ \E c \in 0 .. (n - 1) : acc = Accumulator(c)
  /\ prover = Prover
  /\ chan = <<>>
  /\ members = [e \in 0 .. (n - 1) |-> 0]
  /\ hist = [stray |-> FALSE, dup |-> FALSE]
  /\ ret = [op |-> "new", d |-> "", v |-> g, res |-> Fulfilled(TRUE), valid |-> TRUE]
  /\ script = [list |-> <<>>, next |-> 0, deleting |-> FALSE]
  /\ calls = <<>>

\* await accumulator.add(d)
AccumulatorAdd(d) ==
  LET r == Accumulator_add(acc, d)
  IN  /\ chan = <<>>
      /\ Size(members) <= MaxI
      /\ acc' = r.state
      /\ ret' = [op |-> "add", d |-> d, v |-> acc.z, res |-> r.ret, valid |-> TRUE]
      /\ chan' = IF r.ret.ok THEN <<r.ret.val>> ELSE chan
      /\ members' = IF r.ret.ok THEN [members EXCEPT ![map(d)] = @ + 1] ELSE members
      /\ hist' = [hist EXCEPT !.dup = @ \/ (r.ret.ok /\ members[map(d)] > 0)]
      /\ UNCHANGED <<H, strict, prover, calls>>

\* await accumulator.del(witness)
AccumulatorDel(witness) ==
  LET r == Accumulator_del(acc, witness)
      e == map(witness.d)
      valid == Accumulator_verify(acc, witness) = Fulfilled(TRUE)
  IN  /\ chan = <<>>
      /\ members[e] = 0 => ~hist.stray
      /\ acc' = r.state
      /\ ret' = [op |-> "del", d |-> witness.d, v |-> witness.v, res |-> r.ret,
                 valid |-> valid]
      /\ chan' = IF r.ret.ok THEN <<r.ret.val>> ELSE chan
      /\ members' = IF r.ret.ok /\ members[e] > 0
                    THEN [members EXCEPT ![e] = @ - 1]
                    ELSE members
      /\ hist' = [hist EXCEPT !.stray = @ \/ members[e] = 0]
      /\ UNCHANGED <<H, strict, prover, calls>>

\* await accumulator.verify(witness): assigns nothing
AccumulatorVerify(witness) ==
  /\ Accumulator_verify(acc, witness).ok \in BOOLEAN
  /\ UNCHANGED vars

\* await accumulator.prove(d): assigns nothing
AccumulatorProve(d) ==
  /\ Accumulator_prove(acc, d).ok \in BOOLEAN
  /\ UNCHANGED vars

\* await prover.update(u), for the record the accumulator returned last
ProverUpdate ==
  /\ chan # <<>>
  /\ prover' = Prover_update(prover, Head(chan))
  /\ chan' = Tail(chan)
  /\ UNCHANGED <<H, strict, acc, members, hist, ret, script, calls>>

\* await prover.prove(d): assigns nothing
ProverProve(d) ==
  /\ Prover_prove(prover, d).ok \in BOOLEAN
  /\ UNCHANGED vars

\* await prover.verify(witness): assigns nothing
ProverVerify(witness) ==
  /\ Prover_verify(prover, witness).ok \in BOOLEAN
  /\ UNCHANGED vars

\* One call by a caller that passes del any witness it holds.
Next ==
  \/ \E d \in Data :
       \/ AccumulatorAdd(d) /\ UNCHANGED script
       \/ AccumulatorProve(d)
       \/ ProverProve(d)
  \/ \E witness \in Witnesses :
       \/ AccumulatorDel(witness) /\ UNCHANGED script
       \/ AccumulatorVerify(witness)
       \/ ProverVerify(witness)
  \/ ProverUpdate

Spec == Init /\ [][Next]_vars

\* One call by a caller that passes del only witnesses verify accepts.
NextValid ==
  \/ \E d \in Data :
       \/ AccumulatorAdd(d) /\ UNCHANGED script
       \/ AccumulatorProve(d)
       \/ ProverProve(d)
  \/ \E witness \in Witnesses :
       \/ /\ Accumulator_verify(acc, witness) = Fulfilled(TRUE)
          /\ AccumulatorDel(witness)
          /\ UNCHANGED script
       \/ AccumulatorVerify(witness)
       \/ ProverVerify(witness)
  \/ ProverUpdate

SpecValid == Init /\ [][NextValid]_vars

\* ------------------------------------------------------- a caller's script
\* The caller keeps every WitnessUpdate add returns ...
KeepAdd(d) ==
  /\ ~script.deleting
  /\ AccumulatorAdd(d)
  /\ script' = IF ret'.res.ok
               THEN [script EXCEPT !.list = Append(@, ret'.res.val),
                                   !.next = Len(script.list) + 1]
               ELSE script

\* ... and then deletes them, last added first, each with the WitnessUpdate
\* its add returned.
DelKept ==
  /\ script.next > 0
  /\ AccumulatorDel(AsWitness(script.list[script.next]))
  /\ script' = [script EXCEPT !.next = IF ret'.res.ok THEN @ - 1 ELSE @,
                              !.deleting = TRUE]

NextKeep ==
  \/ \E d \in Data : KeepAdd(d)
  \/ DelKept
  \/ ProverUpdate

SpecKeep == Init /\ [][NextKeep]_vars

\* ---------------------------------------------------------- the properties
\* Every record add and del returned has been passed to Prover.update.
Synced == chan = <<>> /\ prover.z # Undefined

\* d's mapped scalar is accumulated: added and not yet deleted.
IsMember(d) == members[map(d)] > 0

\* Every del so far named an accumulated scalar, every add a fresh one.
EachDelOfMember == ~hist.stray
EachAddFresh == ~hist.dup

\* No accumulated scalar e has (e + c) mod n = 0.
NoZeroFactor == \A e \in Points : members[e] > 0 => (e + acc.c) % n # 0

\* PRODUCT of (e + shift) over the bag of accumulated scalars e, mod n.
RECURSIVE ProductUpto(_, _)
ProductUpto(shift, upto) ==
  IF upto < 0
  THEN 1
  ELSE IF members[upto] = 0
  THEN ProductUpto(shift, upto - 1)
  ELSE (((upto + shift) ^ members[upto]) * ProductUpto(shift, upto - 1)) % n

MemberProduct == ProductUpto(acc.c, n - 1)
ScalarProduct == ProductUpto(0, n - 1)

\* base ^ j mod n
Power(base, j) == IF j = 0 THEN 1 ELSE (base ^ j) % n

\* The largest number of elements the Prover has seen accumulated at a time.
PeakSize == CHOOSE k \in DOMAIN prover.Q : \A j \in DOMAIN prover.Q : j <= k

\* c mod n # 0
SecretInvertible == acc.c # 0

\* c mod n # 0 and c^j mod n # 1 for 1 <= j < PeakSize: the Accumulator's Q,
\* which is g * c^(k-1) with k elements accumulated, was g only with k = 1.
RegularSecret ==
  /\ SecretInvertible
  /\ \A j \in 1 .. (PeakSize - 1) : Power(acc.c, j) # 1

\* The curve's multiply is given no scalar 0 by prover.prove(d) and by
\* prover.verify of its result, where the curve rejects that scalar.
NoZeroScalar(d) ==
  strict =>
    /\ map(d) # 0
    /\ \A j \in 0 .. ToNumber(prover.i) :
         coefficients(prover, filter(prover.A, map(d)))[j] # 0

\* Both parties accept what prover.prove(d) returns.
ProverWitnessVerifies(d) ==
  LET p == Prover_prove(prover, d)
  IN  /\ p.ok
      /\ Accumulator_verify(acc, p.val) = Fulfilled(TRUE)
      /\ Prover_verify(prover, p.val) = Fulfilled(TRUE)

C3_InvalidDelFails == (ret.op = "del" /\ ~ret.valid) => ~ret.res.ok

\* C4: the WitnessUpdate add returned passes Accumulator.verify until the
\* next add or del.
C4_AddedVerifies ==
  (ret.op = "add" /\ ret.res.ok) =>
    Accumulator_verify(acc, AsWitness(ret.res.val)) = Fulfilled(TRUE)

\* An add onto a non-empty accumulator has returned.
C4_Witness ==
  /\ ret.op = "add" /\ ret.res.ok
  /\ acc.i = <<1>>
  /\ acc.z # g

\* C5: for an accumulated d with e # 0 and e + c # 0, Accumulator.prove(d)
\* returns a witness Accumulator.verify accepts against the current z.
C5_ProvedVerifies ==
  \A d \in Data :
    (IsMember(d) /\ map(d) # 0 /\ (map(d) + acc.c) % n # 0) =>
      LET p == Accumulator_prove(acc, d)
      IN  p.ok /\ Accumulator_verify(acc, p.val) = Fulfilled(TRUE)

\* Two elements are accumulated and the one added first can be proved.
C5_Witness ==
  /\ Len(prover.A) = 2 /\ chan = <<>> /\ EachDelOfMember /\ EachAddFresh
  /\ \E d \in Data : map(d) = prover.A[1] /\ Accumulator_prove(acc, d).ok

\* Accumulator.verify, or Prover.verify, accepts what prover.prove(d) returns.
AccumulatorAccepts(d) ==
  LET p == Prover_prove(prover, d)
  IN  p.ok /\ Accumulator_verify(acc, p.val) = Fulfilled(TRUE)

ProverAccepts(d) ==
  LET p == Prover_prove(prover, d)
  IN  p.ok /\ Prover_verify(prover, p.val) = Fulfilled(TRUE)

ProverTracks ==
  /\ prover.z = acc.z
  /\ prover.i = acc.i
  /\ \A j \in 0 .. (IF acc.i = Null THEN 0 ELSE acc.i[1] + 1) :
       j \in DOMAIN prover.Q /\ prover.Q[j] = multiply(g, Power(acc.c, j))

KeptFactor(j) == (map(script.list[j].d) + acc.c) % n

\* PRODUCT of KeptFactor(k) for lo <= k <= hi, mod n.
RECURSIVE FactorsBetween(_, _)
FactorsBetween(lo, hi) ==
  IF lo > hi THEN 1 ELSE (KeptFactor(lo) * FactorsBetween(lo + 1, hi)) % n

NoZeroKept == \A j \in 1 .. Len(script.list) : KeptFactor(j) # 0

DistinctKept ==
  \A j, k \in 1 .. Len(script.list) :
    j # k => script.list[j].d # script.list[k].d

\* Accumulator.verify accepts the j-th kept WitnessUpdate.
KeptVerifies(j) ==
  Accumulator_verify(acc, AsWitness(script.list[j])) = Fulfilled(TRUE)

AllDeleted == script.deleting /\ script.next = 0 /\ chan = <<>>

\* The Accumulator and the Prover are as constructed, but for the Prover's z
\* and Q.
Emptied ==
  /\ acc.i = Null
  /\ acc.Q = inf
  /\ acc.z = g
  /\ prover.A = <<>>
  /\ prover.i = Null

AddThenDel(this, d) ==
  LET added == Accumulator_add(this, d)
  IN  IF ~added.ret.ok
      THEN [state |-> added.state, ok |-> FALSE]
      ELSE LET deleted == Accumulator_del(added.state, AsWitness(added.ret.val))
           IN  [state |-> deleted.state, ok |-> deleted.ret.ok]

\* add(d) and del of the WitnessUpdate it returned both fulfil and leave z, Q
\* and i as they were.
Restored(d) ==
  LET after == AddThenDel(acc, d)
  IN  /\ after.ok
      /\ after.state.z = acc.z
      /\ after.state.Q = acc.Q
      /\ after.state.i = acc.i

\* C11 as stated, for (e + c) mod n # 0 and states reached with every del
\* naming an accumulated element: from any reachable state and any secret
\* c in 1 .. n-1, add(d) and then del of the WitnessUpdate add returned leave
\* z, Q and i as they were before the add.
C11_AnyState ==
  (SecretInvertible /\ EachDelOfMember) =>
    \A d \in Data : (map(d) + acc.c) % n # 0 => Restored(d)

\* C11 amended: for a secret c in 1 .. n-1 and (e + c) mod n # 0, add(d) and
\* then del of the WitnessUpdate add returned leave z, Q and i as they were
\* exactly when, before the add, i is not -1 and Q is the identity or
\* Q * c is not g.
C11_Restores ==
  SecretInvertible =>
    \A d \in Data :
      (map(d) + acc.c) % n # 0 =>
        (Restored(d) <=>
           /\ acc.i # <<-1>>
           /\ acc.Q = inf \/ multiply(acc.Q, acc.c) # g)

\* One element is accumulated, and adding a second and deleting it again
\* passes through another Q and i and comes back.
C11_Witness ==
  /\ SecretInvertible
  /\ acc.i = <<0>>
  /\ \E d \in Data :
       /\ (map(d) + acc.c) % n # 0
       /\ ~IsMember(d)
       /\ Accumulator_add(acc, d).state.i = <<1>>
       /\ Accumulator_add(acc, d).state.Q # acc.Q
       /\ Restored(d)


\* ------------------------------------------------------------- two adds
\* await accumulator.add(d1); await accumulator.add(d2): the state they leave
AddTwo(this, d1, d2) ==
  Accumulator_add(Accumulator_add(this, d1).state, d2).state

\* C12: from any reachable state and for two different elements d1 and d2,
\* add(d1) then add(d2) leaves the same z, Q and i as add(d2) then add(d1).
C12_OrderInvariant ==
  \A d1, d2 \in Data :
    d1 # d2 =>
      LET one == AddTwo(acc, d1, d2)
          other == AddTwo(acc, d2, d1)
      IN  one.z = other.z /\ one.Q = other.Q /\ one.i = other.i

\* One element is accumulated and two others, with different scalars, can be
\* added in either order: the states in between differ and the final ones
\* have two elements more.
C12_Witness ==
  /\ acc.i = <<0>>
  /\ \E d1, d2 \in Data :
       /\ map(d1) # map(d2)
       /\ Accumulator_add(acc, d1).ret.ok
       /\ Accumulator_add(Accumulator_add(acc, d1).state, d2).ret.ok
       /\ Accumulator_add(acc, d1).state # Accumulator_add(acc, d2).state
       /\ AddTwo(acc, d1, d2).i = <<2>>
       /\ AddTwo(acc, d1, d2).z # acc.z

\* ------------------------------------------------------ the read-only calls
\* The instance after await accumulator.verify(witness): e is a local, and
\* no field is assigned.
Accumulator_afterVerify(this, witness) == this

\* The instance after await accumulator.prove(d): e, v and w are locals.
Accumulator_afterProve(this, d) == this

\* prove that filters the proven element out of this.A in place:
\* this.A = this.A.filter(v => v !== e)
Prover_afterProveInPlace(this, d) == [this EXCEPT !.A = filter(@, map(d))]

\* The instance after await prover.prove(d): filter returns a new array for
\* the local A, combinate fills a fresh combinations array on every call, and
\* coefficients, v and w are locals.
Prover_afterProve(this, d) == this

\* The instance after await prover.verify(witness): e is a local.
Prover_afterVerify(this, witness) == this

PeakIndex ==
  LET sent == IF chan = <<>> THEN {} ELSE {ToNumber(chan[1].i) + 1}
      seen == (DOMAIN prover.Q) \cup sent
  IN  CHOOSE k \in seen : \A j \in seen : j <= k

\* c mod n # 0 and c^j mod n # 1 for 1 <= j < PeakIndex.
RegularSoFar ==
  /\ SecretInvertible
  /\ \A j \in 1 .. (PeakIndex - 1) : Power(acc.c, j) # 1

\* C14 as stated, for runs whose dels named accumulated elements and a secret
\* that is neither 0 nor a root of unity of small order: with k elements
\* accumulated, k = 0 gives Q the identity and i null, and k > 0 gives
\* i = k - 1 and Q = g * c^k.
C14_QPowerOfCount ==
  (EachDelOfMember /\ RegularSoFar) =>
    LET k == Size(members)
    IN  IF k = 0
        THEN acc.Q = inf /\ acc.i = Null
        ELSE acc.i = <<k - 1>> /\ acc.Q = multiply(g, Power(acc.c, k))

\* C14 amended: the same with Q = g * c^(k-1) for k > 0.
C14_QPowerBelowCount ==
  (EachDelOfMember /\ RegularSoFar) =>
    LET k == Size(members)
    IN  IF k = 0
        THEN acc.Q = inf /\ acc.i = Null
        ELSE acc.i = <<k - 1>> /\ acc.Q = multiply(g, Power(acc.c, k - 1))

\* Two elements are accumulated, with a secret other than 1: Q is g * c,
\* which is neither g nor g * c^2.
C14_Witness ==
  /\ EachDelOfMember /\ RegularSoFar
  /\ Size(members) = 2
  /\ acc.Q = multiply(g, acc.c)
  /\ acc.Q # g
  /\ acc.Q # multiply(g, Power(acc.c, 2))

\* ------------------------------------------------------------ the Prover's A
\* Number of occurrences of the scalar e in A.
Occurrences(A, e) == Len(A) - Len(filter(A, e))

\* C15: in every Prover state reached by replaying the records of adds and of
\* dels of accumulated elements, in the order they were returned, for a
\* secret neither 0 nor of small order, A holds i + 1 scalars when i is not
\* null and none when i is null.
C15_SizeIsCursor ==
  (EachDelOfMember /\ RegularSoFar) =>
    Len(prover.A) = (IF prover.i = Null THEN 0 ELSE prover.i[1] + 1)

\* C16: once the Prover has replayed every record, of adds and of dels of
\* accumulated elements, for a secret neither 0 nor of small order, A holds
\* each scalar as many times as it is accumulated: after two adds and one del
\* of the same element, once.
C16_OneOccurrenceRemoved ==
  (Synced /\ EachDelOfMember /\ RegularSoFar) =>
    \A e \in Points : Occurrences(prover.A, e) = members[e]

\* ------------------------------------------------------ the two verifiers
\* Every record {d, v, w} of an element and two points.
AnyWitness == [d : Data, v : Points, w : Points]

\* Both verifiers accept the witness.
BothAccept(witness) ==
  /\ Accumulator_verify(acc, witness) = Fulfilled(TRUE)
  /\ Prover_verify(prover, witness) = Fulfilled(TRUE)

C18_ProvedPassesBoth ==
  (prover.z = acc.z /\ EachDelOfMember /\ RegularSoFar) =>
    \A d \in Data :
      (IsMember(d) /\ map(d) # 0 /\ (map(d) + acc.c) % n # 0) =>
        /\ Accumulator_prove(acc, d).ok
        /\ BothAccept(Accumulator_prove(acc, d).val)

WitnessUpdateFields == {"d", "z", "v", "w", "Q", "i"}
UpdateFields == {"d", "z", "Q", "i"}
WitnessFields == {"d", "v", "w"}

\* The d, z, Q and i of a record, as Prover.update destructures it.
AsUpdate(record) ==
  [d |-> record.d, z |-> record.z, Q |-> record.Q, i |-> record.i]

\* C20: no record add, del or either prove returns has a field c, the Prover
\* has no field c, and Prover.update computes the Prover's next state from
\* the d, z, Q and i of a record and the Prover's own fields.
C20_SecretStaysInside ==
  /\ \A k \in 1 .. Len(chan) :
       /\ "c" \notin DOMAIN chan[k]
       /\ DOMAIN chan[k] \in {WitnessUpdateFields, UpdateFields}
       /\ Prover_update(prover, AsUpdate(chan[k])) = Prover_update(prover, chan[k])
  /\ (ret.op = "add" /\ ret.res.ok) => DOMAIN ret.res.val = WitnessUpdateFields
  /\ (ret.op = "del" /\ ret.res.ok) => DOMAIN ret.res.val = UpdateFields
  /\ \A d \in Data :
       /\ Accumulator_prove(acc, d).ok
            => DOMAIN Accumulator_prove(acc, d).val = WitnessFields
       /\ Prover_prove(prover, d).ok
            => DOMAIN Prover_prove(prover, d).val = WitnessFields
  /\ DOMAIN prover = {"A", "Q", "i", "z"}

\* The Prover holds two elements and can prove one, and the Update of a del
\* is on its way to it.
C20_Witness ==
  /\ chan # <<>>
  /\ ret.op = "del" /\ ret.res.ok
  /\ DOMAIN chan[1] = UpdateFields
  /\ Len(prover.A) = 2
  /\ \E d \in Data : Prover_prove(prover, d).ok

\* ------------------------------------------------- a caller one element on
\* await accumulator.add(d), by a caller that accumulates one element more
\* than the callers above.
DeepAdd(d) ==
  LET r == Accumulator_add(acc, d)
  IN  /\ chan = <<>>
      /\ Size(members) <= MaxI + 1
      /\ acc' = r.state
      /\ ret' = [op |-> "add", d |-> d, v |-> acc.z, res |-> r.ret, valid |-> TRUE]
      /\ chan' = IF r.ret.ok THEN <<r.ret.val>> ELSE chan
      /\ members' = IF r.ret.ok THEN [members EXCEPT ![map(d)] = @ + 1] ELSE members
      /\ hist' = [hist EXCEPT !.dup = @ \/ (r.ret.ok /\ members[map(d)] > 0)]
      /\ UNCHANGED <<H, strict, prover, script, calls>>

\* await accumulator.del(witness), for a witness of an accumulated element
\* that verify accepts.
DeepDel(witness) ==
  /\ IsMember(witness.d)
  /\ Accumulator_verify(acc, witness) = Fulfilled(TRUE)
  /\ AccumulatorDel(witness)
  /\ UNCHANGED script

NextDeep ==
  \/ \E d \in Data : DeepAdd(d)
  \/ \E witness \in Witnesses : DeepDel(witness)
  \/ ProverUpdate

SpecDeep == Init /\ [][NextDeep]_vars

\* ------------------------------------------------------- what add returns
\* c^j mod n # 1 for 1 <= j < PeakIndex: no del has found Q equal to g with
\* more than one element accumulated.
NoSmallOrder == \A j \in 1 .. (PeakIndex - 1) : Power(acc.c, j) # 1

\* If add(d) fulfils in this state, its record has v = z, w = z * c,
\* z = z * ((e + c) mod n) and the cursor one step on, and satisfies both
\* verification equations.
AddReturns(d) ==
  LET r == Accumulator_add(acc, d)
      record == r.ret.val
      e == map(d)
      s == (e + acc.c) % n
  IN  r.ret.ok =>
        /\ record.v = acc.z
        /\ record.w = multiply(acc.z, acc.c)
        /\ record.z = multiply(acc.z, s)
        /\ record.i = (IF acc.i = Null THEN <<0>> ELSE <<acc.i[1] + 1>>)
        /\ r.state.z = record.z /\ r.state.i = record.i
        /\ multiply(record.v, s) = record.z
        /\ PointAdd(multiply(record.v, e), record.w) = record.z

\* If add(d) fulfils in this state, the Q of its record is g * c^(i+1) for
\* the i of its record.
AddReturnsPower(d) ==
  LET r == Accumulator_add(acc, d)
  IN  r.ret.ok =>
        r.ret.val.Q = multiply(g, Power(acc.c, r.ret.val.i[1] + 1))

DelReturns(witness) ==
  LET r == Accumulator_del(acc, witness)
      record == r.ret.val
      s == (map(witness.d) + acc.c) % n
  IN  r.ret.ok =>
        /\ record.d = witness.d
        /\ record.z = r.state.z
        /\ record.z = multiply(acc.z, modInv(s, n))
        /\ record.i = r.state.i
        /\ record.i = (IF acc.i = <<0>> THEN Null ELSE <<ToNumber(acc.i) - 1>>)
        /\ record.Q = acc.Q

\* If del(witness) fulfils in this state, the Q of its record is g * c^(i+1)
\* for the i of its record, or g * c^atNull where that i is null; the
\* Accumulator's Q is one power of c lower, or the identity where the last
\* element went.
DelReturnsPower(witness, atNull) ==
  LET r == Accumulator_del(acc, witness)
      record == r.ret.val
  IN  r.ret.ok =>
        /\ record.Q = multiply(g, Power(acc.c, IF record.i = Null
                                               THEN atNull
                                               ELSE record.i[1] + 1))
        /\ r.state.Q = (IF Size(members) = 1
                        THEN inf
                        ELSE multiply(acc.Q, modInv(acc.c, n)))

\* C22 as stated, for dels of accumulated elements and a secret neither 0 nor
\* of small order: the record a successful del returns has the z and i after
\* the deletion and the Q before it, which is g * c^(i+1) for the returned i,
\* g * c where that i is null; the Accumulator's own Q is one power of c
\* lower, or the identity where the set becomes empty.
C22_PowerAtIndexOne ==
  (EachDelOfMember /\ RegularSoFar) =>
    \A witness \in Witnesses :
      IsMember(witness.d) =>
        DelReturns(witness) /\ DelReturnsPower(witness, 1)

\* C22 amended: the same, but where the returned i is null the returned Q is
\* g, not g * c.
C22_DelReturns ==
  /\ \A witness \in Witnesses : DelReturns(witness)
  /\ (EachDelOfMember /\ RegularSoFar) =>
       \A witness \in Witnesses :
         IsMember(witness.d) => DelReturnsPower(witness, 0)

\* Two elements are accumulated with a secret other than 1; a del of one
\* returns Q = g * c and leaves Q = g.
C22_Witness ==
  /\ EachDelOfMember /\ RegularSoFar
  /\ acc.i = <<1>>
  /\ acc.c # 1
  /\ \E witness \in Witnesses :
       /\ IsMember(witness.d)
       /\ Accumulator_verify(acc, witness) = Fulfilled(TRUE)
       /\ Accumulator_del(acc, witness).ret.ok
       /\ Accumulator_del(acc, witness).ret.val.Q = multiply(g, acc.c)
       /\ Accumulator_del(acc, witness).ret.val.i = <<0>>
       /\ Accumulator_del(acc, witness).state.Q = g

\* ------------------------------------------------------------ the first add
\* If add(d) fulfils in this state, the record it returns verifies
\* afterwards, the cursor is 0, z is g * (e + c), and the Accumulator's Q is
\* the given point.
FirstAdd(d, Q) ==
  LET r == Accumulator_add(acc, d)
  IN  r.ret.ok =>
        /\ Accumulator_verify(r.state, AsWitness(r.ret.val)) = Fulfilled(TRUE)
        /\ r.state.i = <<0>>
        /\ r.state.z = multiply(g, (map(d) + acc.c) % n)
        /\ r.state.Q = Q

\* Nothing is accumulated, in a run whose dels named accumulated elements.
Empty == Size(members) = 0 /\ EachDelOfMember

\* C23 as stated, for c mod n # 0: after the first add on an empty
\* Accumulator the returned witness verifies, i = 0, z = g * (e + c) and Q = g * c^2.
C23_QSquare ==
  (Empty /\ SecretInvertible) => \A d \in Data : FirstAdd(d, multiply(g, Power(acc.c, 2)))

\* C23 amended: the same with Q = g, and g * c the Q of the returned record.
C23_FirstAdd ==
  Empty =>
    \A d \in Data :
      /\ FirstAdd(d, g)
      /\ Accumulator_add(acc, d).ret.ok
           => Accumulator_add(acc, d).ret.val.Q = multiply(g, acc.c)

\* The Accumulator is empty again after a del, the secret is neither 0 nor 1
\* nor n - 1, and an add can follow.
C23_Witness ==
  /\ Empty
  /\ ret.op = "del" /\ ret.res.ok
  /\ acc.c # 0 /\ Power(acc.c, 2) # 1
  /\ \E d \in Data :
       /\ Accumulator_add(acc, d).ret.ok
       /\ Accumulator_add(acc, d).state.z # g

\* ------------------------------------------------ insertion or deletion
\* C24: the record on its way to the Prover is the one the last add or del
\* returned.  Prover.update appends e for the record of an add, whose i is
\* not below the Prover's (null counting as 0), and filters e out for the
\* record of a del, whose i is null or below the Prover's; either way the
\* Prover's i and z become the record's.
C24_Classified ==
  chan # <<>> =>
    LET update == chan[1]
        e == map(update.d)
        next == Prover_update(prover, update)
    IN  /\ ret.op = "add" =>
             /\ update.i # Null
             /\ update.i[1] >= ToNumber(prover.i)
             /\ next.A = Append(prover.A, e)
        /\ ret.op = "del" =>
             /\ update.i = Null \/ update.i[1] < ToNumber(prover.i)
             /\ next.A = filter(prover.A, e)
        /\ next.i = update.i
        /\ next.z = update.z

\* The Update of a del that left one of two elements is on its way to a
\* Prover that holds both.
C24_Witness ==
  /\ chan # <<>>
  /\ ret.op = "del" /\ ret.res.ok
  /\ chan[1].i = <<0>>
  /\ prover.i = <<1>>
  /\ Len(prover.A) = 2
  /\ Len(filter(prover.A, map(chan[1].d))) = 1

\* ------------------------------------------------ what Prover.prove returns
\* PRODUCT of (x + shift) over the scalars x of a sequence, mod n.
RECURSIVE SeqProduct(_, _)
SeqProduct(A, shift) ==
  IF A = <<>> THEN 1 ELSE (((A[1] + shift) % n) * SeqProduct(Tail(A), shift)) % n

\* Where prove(d) fulfils and the Prover's A without e has at most i scalars,
\* its v is g * c^lag * PRODUCT (x + c) over them; lag is how many fewer than
\* i they are.
ProvedProduct(d, aligned) ==
  LET rest == filter(prover.A, map(d))
      lag == ToNumber(prover.i) - Len(rest)
      p == Prover_prove(prover, d)
  IN  (lag >= 0 /\ p.ok) =>
        p.val.v = multiply(g, (Power(acc.c, IF aligned THEN lag ELSE 0)
                                 * SeqProduct(rest, acc.c)) % n)

\* C25 as stated, for a Prover that has replayed every record of a run whose
\* dels named accumulated elements, with a secret neither 0 nor of small
\* order: where A without e has at most i scalars, the v of prove(d) is
\* g * PRODUCT (x + c) over them.
C25_ProductAnyLag ==
  (Synced /\ EachDelOfMember /\ RegularSecret) =>
    \A d \in Data : ProvedProduct(d, FALSE)

\* C25 amended: the v of prove(d) is g * c^(i - |A'|) * PRODUCT (x + c); it is
\* the product itself where A without e has exactly i scalars.
C25_ProductShifted ==
  (Synced /\ EachDelOfMember /\ RegularSecret) =>
    \A d \in Data : ProvedProduct(d, TRUE)

\* The Prover holds two different scalars and proves the first: its v is g
\* times the other scalar plus c, and not g.
C25_Witness ==
  /\ Synced /\ EachDelOfMember /\ RegularSecret
  /\ prover.i = <<1>>
  /\ Len(prover.A) = 2
  /\ prover.A[1] # prover.A[2]
  /\ \E d \in Data :
       /\ map(d) = prover.A[1]
       /\ Prover_prove(prover, d).ok
       /\ Prover_prove(prover, d).val.v = multiply(g, (prover.A[2] + acc.c) % n)
       /\ Prover_prove(prover, d).val.v # g

\* ------------------------------------------------------------ coefficients
\* The elementary symmetric polynomial sigma_j of the scalars of A, mod n, by
\* sigma_j(S + {x}) = sigma_j(S) + x * sigma_(j-1)(S), sigma_0 = 1.
RECURSIVE Sigma(_, _)
Sigma(j, A) ==
  IF j = 0
  THEN 1
  ELSE IF A = <<>>
  THEN 0
  ELSE LET S == SubSeq(A, 1, Len(A) - 1)
       IN  (Sigma(j, S) + A[Len(A)] * Sigma(j - 1, S)) % n

\* The indices 1 .. Len(A) in order.
Indices(A) == [m \in 1 .. Len(A) |-> m]

\* combinate(j, A) lists, for every set of j indices of A exactly once, the
\* elements at those indices in order: [[]] for j = 0, nothing for
\* j > Len(A); and the coefficient computed from it is sigma_j(A).
CombinatesExactly(A) ==
  \A j \in 0 .. (Len(A) + 1) :
    LET picks == combinate(j, Indices(A), <<>>, <<>>)
        groups == combinate(j, A, <<>>, <<>>)
    IN  /\ Len(groups) = Len(picks)
        /\ \A p \in 1 .. Len(picks) :
             /\ Len(picks[p]) = j
             /\ \A q \in 1 .. j : picks[p][q] \in 1 .. Len(A)
             /\ \A q \in 1 .. (j - 1) : picks[p][q] < picks[p][q + 1]
             /\ groups[p] = [q \in 1 .. j |-> A[picks[p][q]]]
             /\ \A r \in 1 .. Len(picks) : r # p => picks[r] # picks[p]
        /\ \A S \in SUBSET (1 .. Len(A)) :
             Cardinality(S) = j =>
               \E p \in 1 .. Len(picks) : {picks[p][q] : q \in 1 .. j} = S
        /\ j = 0 => groups = << <<>> >>
        /\ j > Len(A) => groups = <<>>
        /\ groupSum(groups) = Sigma(j, A)

\* C26: for the Prover's A and for A without e, for every element d,
\* combinate yields every index subset of each size exactly once, and the
\* j-th coefficient Prover.prove computes is sigma_j of A without e, for
\* every j in 0 .. i.
C26_Coefficients ==
  /\ CombinatesExactly(prover.A)
  /\ \A d \in Data :
       LET rest == filter(prover.A, map(d))
       IN  /\ CombinatesExactly(rest)
           /\ \A j \in 0 .. ToNumber(prover.i) :
                coefficients(prover, rest)[j] = Sigma(j, rest)

\* The Prover holds three different scalars: there are three pairs of them,
\* and proving one element leaves two scalars with sigma_1 their sum and
\* sigma_2 their product.
C26_Witness ==
  /\ Len(prover.A) = 3
  /\ prover.i = <<2>>
  /\ prover.A[1] # prover.A[2] /\ prover.A[1] # prover.A[3]
  /\ prover.A[2] # prover.A[3]
  /\ Len(combinate(2, prover.A, <<>>, <<>>)) = 3
  /\ \E d \in Data :
       LET rest == filter(prover.A, map(d))
       IN  /\ Len(rest) = 2
           /\ coefficients(prover, rest)[1] = (rest[1] + rest[2]) % n
           /\ coefficients(prover, rest)[2] = (rest[1] * rest[2]) % n
           /\ coefficients(prover, rest)[2] # 0

\* --------------------------------------------------- the w of a witness
\* The witness with another point for its w.
WithW(witness, w) == [witness EXCEPT !.w = w]

\* C27: a witness and the same witness with any other w are verified alike
\* by Accumulator.verify, and del leaves the same state and returns the same
\* record for both.
C27_IgnoresW ==
  \A witness \in Witnesses :
    \A w \in Points :
      /\ Accumulator_verify(acc, WithW(witness, w))
           = Accumulator_verify(acc, witness)
      /\ Accumulator_del(acc, WithW(witness, w)) = Accumulator_del(acc, witness)

\* Two elements are accumulated; a witness both parties accept is given
\* another w: the Prover rejects it, the Accumulator accepts it and del
\* succeeds on it.
C27_Witness ==
  /\ Synced
  /\ acc.i = <<1>>
  /\ \E witness \in Witnesses :
       \E w \in Points :
         /\ w # witness.w
         /\ BothAccept(witness)
         /\ Prover_verify(prover, WithW(witness, w)) = Fulfilled(FALSE)
         /\ Accumulator_verify(acc, WithW(witness, w)) = Fulfilled(TRUE)
         /\ Accumulator_del(acc, WithW(witness, w)).ret.ok
         /\ Accumulator_del(acc, WithW(witness, w)).state # acc


\* -------------------------------------------------- calls that are not awaited
\* A caller starts at most MaxCalls calls without awaiting them.
MaxCalls == MaxI + 2

\* A call as it is started: an async method runs up to its `await map(...)`
\* and returns a pending promise. seen is how many calls had resumed by then.
Call(op, arg) ==
  [op |-> op, arg |-> arg, seen |-> Cardinality({k \in DOMAIN calls : calls[k].at # 0}),
   at |-> 0, res |-> Fulfilled(Undefined)]

Pending == {k \in DOMAIN calls : calls[k].at = 0}
Resumed == {k \in DOMAIN calls : calls[k].at # 0}

\* The call that resumed in position t.
CallAt(t) == CHOOSE k \in DOMAIN calls : calls[k].at = t

\* One call run from its first line to its last with nothing in between, on
\* the two instances in state: [acc, prover, res]
Run(state, call) ==
  IF call.op = "add"
  THEN LET r == Accumulator_add(state.acc, call.arg.d)
       IN  [acc |-> r.state, prover |-> state.prover, res |-> r.ret]
  ELSE IF call.op = "del"
  THEN LET r == Accumulator_del(state.acc, call.arg)
       IN  [acc |-> r.state, prover |-> state.prover, res |-> r.ret]
  ELSE IF call.op = "update"
  THEN [acc |-> state.acc, prover |-> Prover_update(state.prover, call.arg),
        res |-> Fulfilled(Undefined)]
  ELSE [acc |-> state.acc, prover |-> state.prover,
        res |-> Prover_prove(state.prover, call.arg.d)]

\* The calls order[1], ..., order[upto] awaited one after the other on the
\* instances as constructed: [acc, prover, res], res[j] the result of order[j]
RECURSIVE Serial(_, _)
Serial(order, upto) ==
  IF upto = 0
  THEN [acc |-> Accumulator(acc.c), prover |-> Prover, res |-> <<>>]
  ELSE LET before == Serial(order, upto - 1)
           r == Run(before, calls[order[upto]])
       IN  [acc |-> r.acc, prover |-> r.prover, res |-> Append(before.res, r.res)]

\* The instances after the first upto calls to resume.
StateAt(upto) == Serial([t \in 1 .. upto |-> CallAt(t)], upto)

\* accumulator.add(d), not awaited: the hash of d is requested
StartAdd(d) ==
  /\ Len(calls) < MaxCalls
  /\ calls' = Append(calls, Call("add", [d |-> d]))
  /\ UNCHANGED <<H, strict, acc, prover, chan, members, hist, ret, script>>

\* accumulator.del(witness), not awaited, with a witness a settled add or
\* prove returned: verify is called and not awaited, the hash is requested
StartDel(witness) ==
  /\ Len(calls) < MaxCalls
  /\ \E k \in Resumed :
       /\ calls[k].op \in {"add", "prove"}
       /\ calls[k].res.ok
       /\ witness = AsWitness(calls[k].res.val)
  /\ calls' = Append(calls, Call("del", witness))
  /\ UNCHANGED <<H, strict, acc, prover, chan, members, hist, ret, script>>

\* prover.update(update), not awaited, with a record a settled add or del
\* returned
StartUpdate(k) ==
  /\ Len(calls) < MaxCalls
  /\ k \in Resumed
  /\ calls[k].op \in {"add", "del"}
  /\ calls[k].res.ok
  /\ calls' = Append(calls, Call("update", calls[k].res.val))
  /\ UNCHANGED <<H, strict, acc, prover, chan, members, hist, ret, script>>

\* prover.prove(d), not awaited
StartProve(d) ==
  /\ Len(calls) < MaxCalls
  /\ calls' = Append(calls, Call("prove", [d |-> d]))
  /\ UNCHANGED <<H, strict, acc, prover, chan, members, hist, ret, script>>

\* calls with call k settled: it resumed next, with the result res
Settle(k, res) ==
  [calls EXCEPT ![k].at = Cardinality(Resumed) + 1, ![k].res = res]

\* add resumed on the instance as it was when the call was started
ResumeAddStale(k) ==
  LET d == calls[k].arg.d
      r == Accumulator_add(StateAt(calls[k].seen).acc, d)
  IN  /\ k \in Pending
      /\ calls[k].op = "add"
      /\ acc' = r.state
      /\ calls' = Settle(k, r.ret)
      /\ members' = IF r.ret.ok THEN [members EXCEPT ![map(d)] = @ + 1] ELSE members
      /\ hist' = [hist EXCEPT !.dup = @ \/ (r.ret.ok /\ members[map(d)] > 0)]
      /\ UNCHANGED <<H, strict, prover, chan, ret, script>>

\* The hash of add's element resolves: the rest of add runs to its return.
ResumeAdd(k) ==
  LET d == calls[k].arg.d
      r == Accumulator_add(acc, d)
  IN  /\ k \in Pending
      /\ calls[k].op = "add"
      /\ acc' = r.state
      /\ calls' = Settle(k, r.ret)
      /\ members' = IF r.ret.ok THEN [members EXCEPT ![map(d)] = @ + 1] ELSE members
      /\ hist' = [hist EXCEPT !.dup = @ \/ (r.ret.ok /\ members[map(d)] > 0)]
      /\ UNCHANGED <<H, strict, prover, chan, ret, script>>

\* The hash of del's element resolves: the rest of del runs to its return.
ResumeDel(k) ==
  LET e == map(calls[k].arg.d)
      r == Accumulator_del(acc, calls[k].arg)
  IN  /\ k \in Pending
      /\ calls[k].op = "del"
      /\ acc' = r.state
      /\ calls' = Settle(k, r.ret)
      /\ members' = IF r.ret.ok /\ members[e] > 0
                    THEN [members EXCEPT ![e] = @ - 1]
                    ELSE members
      /\ hist' = [hist EXCEPT !.stray = @ \/ members[e] = 0]
      /\ UNCHANGED <<H, strict, prover, chan, ret, script>>

\* The hash of update's element resolves: the rest of update runs to its end.
ResumeUpdate(k) ==
  /\ k \in Pending
  /\ calls[k].op = "update"
  /\ prover' = Prover_update(prover, calls[k].arg)
  /\ calls' = Settle(k, Fulfilled(Undefined))
  /\ UNCHANGED <<H, strict, acc, chan, members, hist, ret, script>>

\* prove resumed on the Prover as it was when the call was started
ResumeProveStale(k) ==
  /\ k \in Pending
  /\ calls[k].op = "prove"
  /\ calls' = Settle(k, Prover_prove(StateAt(calls[k].seen).prover, calls[k].arg.d))
  /\ UNCHANGED <<H, strict, acc, prover, chan, members, hist, ret, script>>

\* The hash of prove's element resolves: the rest of prove runs to its return.
ResumeProve(k) ==
  /\ k \in Pending
  /\ calls[k].op = "prove"
  /\ calls' = Settle(k, Prover_prove(prover, calls[k].arg.d))
  /\ UNCHANGED <<H, strict, acc, prover, chan, members, hist, ret, script>>

\* A caller that awaits nothing: it starts calls, and the hashes resolve in
\* any order.
NextAsync ==
  \/ \E d \in Data :
       \/ StartAdd(d)
       \/ StartProve(d)
  \/ \E witness \in AnyWitness : StartDel(witness)
  \/ \E k \in 1 .. MaxCalls :
       \/ StartUpdate(k)
       \/ ResumeAdd(k)
       \/ ResumeDel(k)
       \/ ResumeUpdate(k)
       \/ ResumeProve(k)

SpecAsync == Init /\ [][NextAsync]_vars

\* The orders in which the calls that have resumed can be awaited one by one.
Schedules ==
  {order \in [1 .. Cardinality(Resumed) -> Resumed] :
     \A s, t \in DOMAIN order : order[s] = order[t] => s = t}

\* C28: calls started without awaiting one another suspend only for their
\* hash and then read and write the instance in one step, so at any moment the
\* two instances and every settled result are those of the resumed calls
\* awaited one after the other in some order: no update is lost.
C28_Serializable ==
  \E order \in Schedules :
    LET serial == Serial(order, Cardinality(Resumed))
    IN  /\ serial.acc = acc
        /\ serial.prover = prover
        /\ \A t \in DOMAIN order : serial.res[t] = calls[order[t]].res

\* Two adds were pending together, every call has resumed, and the add
\* started second resumed first.
C28_Witness ==
  /\ Pending = {}
  /\ \E j, k \in DOMAIN calls :
       /\ j < k
       /\ calls[j].op = "add" /\ calls[k].op = "add"
       /\ calls[j].res.ok /\ calls[k].res.ok
       /\ calls[j].at > calls[k].seen
       /\ calls[k].at < calls[j].at

\* ------------------------------------------- an update that is not awaited
\* prover.update (call j) was started, and prover.prove (call k) after it
\* while the update was still waiting for its hash; prove has settled.
UpdateThenProve(j, k) ==
  /\ j \in DOMAIN calls /\ k \in DOMAIN calls
  /\ j < k
  /\ calls[j].op = "update" /\ calls[k].op = "prove"
  /\ calls[j].at \notin 1 .. calls[k].seen
  /\ calls[k].at # 0

\* The Prover after the updates called before call k, one after the other in
\* call order.
ProverAsCalled(k) ==
  LET updates == {j \in 1 .. (k - 1) : calls[j].op = "update"}
      order == CHOOSE o \in [1 .. Cardinality(updates) -> updates] :
                 \A s, t \in DOMAIN o : s < t => o[s] < o[t]
  IN  Serial(order, Cardinality(updates)).prover

\* The records that the first upto calls to resume returned (add, del) or
\* were given (update), for the calls of the methods in ops.
RECURSIVE Records(_, _)
Records(ops, upto) ==
  IF upto = 0
  THEN <<>>
  ELSE LET call == calls[CallAt(upto)]
       IN  IF call.op \notin ops
           THEN Records(ops, upto - 1)
           ELSE IF call.op = "update"
           THEN Append(Records(ops, upto - 1), call.arg)
           ELSE IF call.res.ok
           THEN Append(Records(ops, upto - 1), call.res.val)
           ELSE Records(ops, upto - 1)

\* The Prover has been given every record the Accumulator returned, once and
\* in the order the Accumulator's calls took effect.
InOrder ==
  Records({"add", "del"}, Cardinality(Resumed))
    = Records({"update"}, Cardinality(Resumed))

QTracksCursor ==
  /\ acc.Q = inf <=> acc.i = Null
  /\ acc.i # Null => acc.Q = multiply(g, Power(acc.c, ToNumber(acc.i)))
  /\ acc.Q = g => Size(members) = 1

\* C30 as stated, after adds and dels of accumulated elements: for every
\* secret c in 1 .. n-1, Q is the identity exactly when i is null and
\* g * c^i otherwise, and del's test `Q equals g` holds only with exactly
\* one element accumulated.
C30_AnySecret == (EachDelOfMember /\ SecretInvertible) => QTracksCursor

\* C30 amended: the same for a secret with c^j mod n # 1 for every j from 1
\* below the largest number of elements accumulated at a time.
C30_QTracksCursor == (EachDelOfMember /\ RegularSoFar) => QTracksCursor

\* A del has left exactly one of two elements accumulated, with a secret
\* other than 1: Q is g again and the cursor is 0.
C30_Witness ==
  /\ EachDelOfMember /\ RegularSoFar
  /\ acc.c # 1
  /\ ret.op = "del" /\ ret.res.ok
  /\ Size(members) = 1
  /\ acc.Q = g /\ acc.i = <<0>>

\* ------------------------------------------------------ the cursor's range
\* A cursor, or the i of a record, is null or a non-negative integer.
NullOrNatural(i) == i = Null \/ i[1] >= 0

\* C31: in every state reached through add, del, verify and prove, the cursor
\* i is null or a non-negative integer: no del succeeds on the empty
\* Accumulator or takes i below 0, and no record with a negative i is
\* returned.
C31_CursorNeverNegative ==
  /\ NullOrNatural(acc.i)
  /\ (ret.op = "del" /\ ret.res.ok) =>
       NullOrNatural(ret.res.val.i)
  /\ \A k \in DOMAIN chan : NullOrNatural(chan[k].i)

\* ------------------------------------------- proving what was never added
\* C32: for an element d that is not accumulated, a secret other than 0 and
\* a run whose dels named accumulated elements, Accumulator.verify does not
\* accept the witness Accumulator.prove(d) returns.
C32_NonMemberProofRejected ==
  (EachDelOfMember /\ SecretInvertible) =>
    \A d \in Data :
      (~IsMember(d) /\ Accumulator_prove(acc, d).ok) =>
        Accumulator_verify(acc, Accumulator_prove(acc, d).val) # Fulfilled(TRUE)

\* ------------------------------------------------ the w of Prover.prove
\* What prover.prove(d) returns, if it returns, has w = v * c.
ProvedShifted(d) ==
  LET p == Prover_prove(prover, d)
  IN  p.ok => p.val.w = multiply(p.val.v, acc.c)

\* The two verify calls settle alike on what prover.prove(d) returns.
ProvedAgreed(d) ==
  LET p == Prover_prove(prover, d)
  IN  p.ok => Accumulator_verify(acc, p.val) = Prover_verify(prover, p.val)

C34_NullCursorProvesIdentity ==
  prover.i = Null =>
    \A d \in Data :
      LET p == Prover_prove(prover, d)
      IN  /\ p = Fulfilled([d |-> d, v |-> inf, w |-> inf])
          /\ Accumulator_verify(acc, p.val) # Fulfilled(TRUE)
          /\ Prover_verify(prover, p.val) # Fulfilled(TRUE)

\* ------------------------------------------------- the Prover's Q entries
\* C35 as stated, for records of an Accumulator whose dels each named an
\* accumulated element and whose secret is neither 0 nor a root of unity of
\* small order: every entry of the Prover's Q, at every defined index j, is
\* g * c^j.
C35_EveryEntryPower ==
  (EachDelOfMember /\ RegularSecret) =>
    \A j \in DOMAIN prover.Q : prover.Q[j] = multiply(g, Power(acc.c, j))

\* C35 amended: the same but for index 1 while the cursor is null, which
\* holds g, the Q the del that emptied the set returned.
C35_EveryEntryButEmptied ==
  (EachDelOfMember /\ RegularSecret) =>
    \A j \in DOMAIN prover.Q :
      prover.Q[j] = IF j = 1 /\ prover.i = Null
                    THEN g
                    ELSE multiply(g, Power(acc.c, j))

\* The Prover has replayed two adds and two dels, with a secret other than
\* 1: Q[2] is left over as g * c^2 and Q[1] is g, not g * c.
C35_Witness ==
  /\ EachDelOfMember /\ RegularSecret
  /\ prover.i = Null
  /\ 2 \in DOMAIN prover.Q
  /\ prover.Q[2] = multiply(g, Power(acc.c, 2))
  /\ prover.Q[1] = g
  /\ prover.Q[1] # multiply(g, acc.c)
=============================================================================
